---- MODULE Spec2Model ----
(***************************************************************************)
(* Model of src/event/source/macos.rs: the select(2)-backed Poll/Registry  *)
(* pair.  PosixSelect holds two maps, read_fds and write_fds, from raw     *)
(* descriptors to tokens; Registry guards it with one Mutex.               *)
(*                                                                         *)
(* A panic inside the critical section poisons the Mutex and unwinds the   *)
(* caller; the model treats the panicked state as final (no operation is   *)
(* taken after it).                                                        *)
(***************************************************************************)
EXTENDS Integers, Sequences, FiniteSets, TLC

\* ---- bounds ----
MaxFd == 1          \* small descriptors are 0..MaxFd
MaxToken == 2       \* tokens are 1..MaxToken
MaxCalls == 3       \* number of API calls made on one Poll
NumThreads == 3     \* threads of the concurrent-registration scenario

\* ---- program constants ----
FD_SETSIZE == 1024

Fds == (0 .. MaxFd) \cup {FD_SETSIZE}
Tokens == 1 .. MaxToken
READABLE == {"R"}
WRITABLE == {"W"}
Interests == {READABLE, WRITABLE, READABLE \cup WRITABLE}
Threads == 1 .. NumThreads

NoFd == -1
NoToken == 0
NoThread == 0
NoCall == [op |-> "none", fd |-> NoFd, token |-> NoToken, interests |-> {}]
NoHist == [op |-> "none", token |-> NoToken, interests |-> {}, replaced |-> FALSE]
NullTimeval == [null |-> TRUE, tv_sec |-> [neg |-> FALSE, bits |-> <<0, 0, 0, 0>>], tv_usec |-> 0]
NoSel == [ret |-> 0, rfds |-> {}, wfds |-> {}, called |-> FALSE,
          syscalls |-> 0, nfds |-> 0, tv |-> NullTimeval]
EmptyMap == [x \in {} |-> NoToken]
NoBuilt == [rset |-> {}, wset |-> {}, r |-> EmptyMap, w |-> EmptyMap]

VARIABLES
  read_fds,     \* PosixSelect.read_fds : HashMap<RawFd, Token>
  write_fds,    \* PosixSelect.write_fds : HashMap<RawFd, Token>
  events,       \* the caller's Events vector handed to poll
  poisoned,     \* the Mutex was held by a call that panicked
  call,         \* the most recent API call and its arguments
  result,       \* what that call returned
  sel,          \* what libc::select returned to that call (poll only)
  ncalls,       \* number of API calls so far
  timeout,      \* the timeout argument of the most recent poll: Option<Duration>
  hist_last,    \* per fd: the latest successful register/reregister since the last deregister
  hist_union,   \* per fd: union of the interests of the successful register/reregister calls since the last deregister
  hist_dereg,   \* deregistered and not registered since: [fd, had], had = the directions deregister removed
  lock,         \* thread holding the Mutex (NoThread when free)
  pc,           \* per thread: position inside Registry::register
  targ,         \* per thread: arguments of its register call
  tres,         \* per thread: result of its register call
  ppc,          \* position of the polling thread inside Poll::poll
  built         \* the fd_sets that thread built, and the table it built them from

vars == <<read_fds, write_fds, events, poisoned, call, result, sel, ncalls, timeout,
          hist_last, hist_union, hist_dereg, lock, pc, targ, tres, ppc, built>>
seqvars == <<events, poisoned, call, result, sel, ncalls, timeout, hist_last, hist_union, hist_dereg>>
pollvars == <<ppc, built>>
threadvars == <<lock, pc, targ, tres, ppc, built>>

\* ---- HashMap and Interest helpers ----
is_readable(interests) == "R" \in interests
is_writable(interests) == "W" \in interests

contains_key(m, fd) == fd \in DOMAIN m

\* mutant: the insert drops the entries of the other keys
insert_lost(m, fd, token) == [x \in {fd} |-> token]

insert(m, fd, token) == [x \in DOMAIN m \cup {fd} |-> IF x = fd THEN token ELSE m[x]]
remove(m, fd) == [x \in DOMAIN m \ {fd} |-> m[x]]

\* HashMap::insert returns the value it replaced: TRUE when a requested
\* direction held another token for fd
Replaces(rf, wf, fd, token, interests) ==
  \/ is_readable(interests) /\ contains_key(rf, fd) /\ rf[fd] # token
  \/ is_writable(interests) /\ contains_key(wf, fd) /\ wf[fd] # token

Event(fd, token) == [fd |-> fd, token |-> token]

\* the elements of a finite set of integers in ascending order
RECURSIVE Ascending(_)
Ascending(S) ==
  IF S = {} THEN <<>>
  ELSE LET m == CHOOSE x \in S : \A y \in S : x <= y IN <<m>> \o Ascending(S \ {m})

Permutations_of(S) == {o \in [1 .. Cardinality(S) -> S] : \A i, j \in 1 .. Cardinality(S) : o[i] = o[j] => i = j}

\* HashMap iteration order is unspecified.  The loops of select skip the keys
\* whose FD_ISSET test fails, so two orders that place the passing keys alike
\* leave the same sink and the same fault: one order is enumerated per order
\* of the passing keys, with the other keys of the map in front.
IterOrders(keys, set) == {Ascending(keys \ set) \o o : o \in Permutations_of(keys \cap set)}

\* mutant: a duplicate is reported only when every requested direction is present
PosixSelect_register_and(rf, wf, fd, token, interests) ==
  IF fd >= FD_SETSIZE
  THEN [res |-> "InvalidInput", r |-> rf, w |-> wf]
  ELSE IF /\ is_readable(interests) => contains_key(rf, fd)
          /\ is_writable(interests) => contains_key(wf, fd)
  THEN [res |-> "AlreadyExists", r |-> rf, w |-> wf]
  ELSE [res |-> "Ok",
        r |-> IF is_readable(interests) THEN insert(rf, fd, token) ELSE rf,
        w |-> IF is_writable(interests) THEN insert(wf, fd, token) ELSE wf]

\* mutant: the capacity test is fd > FD_SETSIZE
PosixSelect_register_gt(rf, wf, fd, token, interests) ==
  IF fd > FD_SETSIZE
  THEN [res |-> "InvalidInput", r |-> rf, w |-> wf]
  ELSE IF \/ is_readable(interests) /\ contains_key(rf, fd)
          \/ is_writable(interests) /\ contains_key(wf, fd)
  THEN [res |-> "AlreadyExists", r |-> rf, w |-> wf]
  ELSE [res |-> "Ok",
        r |-> IF is_readable(interests) THEN insert(rf, fd, token) ELSE rf,
        w |-> IF is_writable(interests) THEN insert(wf, fd, token) ELSE wf]

\* ---- PosixSelect::register ----
PosixSelect_register(rf, wf, fd, token, interests) ==
  IF fd >= FD_SETSIZE
  THEN [res |-> "InvalidInput", r |-> rf, w |-> wf]
  ELSE IF \/ is_readable(interests) /\ contains_key(rf, fd)
          \/ is_writable(interests) /\ contains_key(wf, fd)
  THEN [res |-> "AlreadyExists", r |-> rf, w |-> wf]
  ELSE [res |-> "Ok",
        r |-> IF is_readable(interests) THEN insert(rf, fd, token) ELSE rf,
        w |-> IF is_writable(interests) THEN insert(wf, fd, token) ELSE wf]

\* mutant: reregister keeps register's duplicate test
PosixSelect_reregister_dup(rf, wf, fd, token, interests) ==
  IF \/ is_readable(interests) /\ contains_key(rf, fd)
     \/ is_writable(interests) /\ contains_key(wf, fd)
  THEN [res |-> "AlreadyExists", r |-> rf, w |-> wf]
  ELSE [res |-> "Ok",
        r |-> IF is_readable(interests) THEN insert(rf, fd, token) ELSE rf,
        w |-> IF is_writable(interests) THEN insert(wf, fd, token) ELSE wf]

\* mutant: reregister replaces the interest set, dropping the direction not requested
PosixSelect_reregister_replace(rf, wf, fd, token, interests) ==
  [res |-> "Ok",
   r |-> IF is_readable(interests) THEN insert(rf, fd, token) ELSE remove(rf, fd),
   w |-> IF is_writable(interests) THEN insert(wf, fd, token) ELSE remove(wf, fd)]

\* ---- PosixSelect::reregister ----
PosixSelect_reregister(rf, wf, fd, token, interests) ==
  [res |-> "Ok",
   r |-> IF is_readable(interests) THEN insert(rf, fd, token) ELSE rf,
   w |-> IF is_writable(interests) THEN insert(wf, fd, token) ELSE wf]

\* mutant: deregister forgets the read map
PosixSelect_deregister_write_only(rf, wf, fd) ==
  [res |-> "Ok", r |-> rf, w |-> remove(wf, fd)]

\* mutant: deregister empties both maps
PosixSelect_deregister_clear(rf, wf, fd) ==
  [res |-> "Ok", r |-> EmptyMap, w |-> EmptyMap]

\* ---- PosixSelect::deregister ----
PosixSelect_deregister(rf, wf, fd) ==
  [res |-> "Ok", r |-> remove(rf, fd), w |-> remove(wf, fd)]

\* ---- PosixSelect::select, translation of the returned sets ----
\* mutant: the first loop pushes an event for every key, FD_ISSET or not
RECURSIVE read_translate_all(_, _, _)
read_translate_all(rf, rfds, order) ==
  IF order = <<>> THEN <<>>
  ELSE <<Event(Head(order), rf[Head(order)])>> \o read_translate_all(rf, rfds, Tail(order))

\* first loop: one event per key of read_fds whose bit is set in rfds
RECURSIVE read_translate(_, _, _)
read_translate(rf, rfds, order) ==
  IF order = <<>> THEN <<>>
  ELSE LET fd == Head(order)
           rest == read_translate(rf, rfds, Tail(order))
       IN IF fd \in rfds THEN <<Event(fd, rf[fd])>> \o rest ELSE rest

\* mutant: the second loop pushes an event for every key, FD_ISSET or not
RECURSIVE write_translate_all(_, _, _, _, _)
write_translate_all(rf, wf, wfds, order, acc) ==
  IF order = <<>> THEN [events |-> acc, fault |-> FALSE]
  ELSE write_translate_all(rf, wf, wfds, Tail(order),
                           Append(acc, Event(Head(order), wf[Head(order)])))

\* the map the second loop takes its token from
write_token_map(rf, wf) == rf

\* second loop: per key of write_fds whose bit is set in wfds, look the token
\* up and unwrap() it; a missing key panics with the events pushed so far
RECURSIVE write_translate(_, _, _, _, _)
write_translate(rf, wf, wfds, order, acc) ==
  IF order = <<>> THEN [events |-> acc, fault |-> FALSE]
  ELSE LET fd == Head(order)
           m == write_token_map(rf, wf)
       IN IF fd \in wfds
          THEN IF contains_key(m, fd)
               THEN write_translate(rf, wf, wfds, Tail(order), Append(acc, Event(fd, m[fd])))
               ELSE [events |-> acc, fault |-> TRUE]
          ELSE write_translate(rf, wf, wfds, Tail(order), acc)

\* Vec::clear
clear(ev) == <<>>

\* the sink after events.clear() and both loops
select_translate(ev, rf, wf, rfds, wfds, rorder, worder) ==
  write_translate(rf, wf, wfds, worder, clear(ev) \o read_translate(rf, rfds, rorder))

\* ---- PosixSelect::select, the timeout handed to libc::select ----
\* a u64 is written as four 16-bit limbs, most significant first
LimbBase == 2 ^ 16
Limbs == 0 .. (LimbBase - 1)
U64_ZERO == <<0, 0, 0, 0>>
U64_MAX == <<LimbBase - 1, LimbBase - 1, LimbBase - 1, LimbBase - 1>>
\* libc::time_t::max_value() as u64, time_t being i64: 2^63 - 1
TIME_T_MAX_AS_U64 == <<LimbBase \div 2 - 1, LimbBase - 1, LimbBase - 1, LimbBase - 1>>

\* a <= b on u64
u64_le(a, b) ==
  \/ a = b
  \/ \E i \in 1 .. 4 : a[i] < b[i] /\ \A j \in 1 .. (i - 1) : a[j] = b[j]

cmp_min(a, b) == IF u64_le(a, b) THEN a ELSE b

\* u64 as i64: the same 64 bits read in two's complement
as_time_t(u) == [neg |-> u[1] >= LimbBase \div 2, bits |-> u]

\* u32 as i32
I32_MAX == 2147483647
as_i32(x) == IF x <= I32_MAX THEN x ELSE (x - I32_MAX) - I32_MAX - 2

\* Option<Duration>
NoneTimeout == [some |-> FALSE, secs |-> U64_ZERO, nanos |-> 0]
SomeTimeout(secs, nanos) == [some |-> TRUE, secs |-> secs, nanos |-> nanos]

\* mutant: as_secs() is cast to time_t without the cmp::min clamp
timeval_of_unclamped(to) ==
  IF to.some
  THEN [null |-> FALSE, tv_sec |-> as_time_t(to.secs), tv_usec |-> as_i32(to.nanos \div 1000)]
  ELSE NullTimeval

\* timeout.map(|to| timeval {..}) .. unwrap_or(ptr::null_mut())
timeval_of(to) ==
  IF to.some
  THEN [null |-> FALSE,
        tv_sec |-> as_time_t(cmp_min(to.secs, TIME_T_MAX_AS_U64)),
        tv_usec |-> as_i32(to.nanos \div 1000)]
  ELSE NullTimeval

\* ---- PosixSelect::select, the sets and nfds handed to libc::select ----
\* one loop over the keys of a map: nfds is raised to the largest key met
RECURSIVE nfds_loop(_, _)
nfds_loop(nfds, order) ==
  IF order = <<>> THEN nfds
  ELSE nfds_loop(IF nfds < Head(order) THEN Head(order) ELSE nfds, Tail(order))

\* mutant: the loop over write_fds does not raise nfds
compute_nfds_read_only(rorder, worder) == nfds_loop(0, rorder) + 1

\* let mut nfds = 0; both loops; nfds += 1
compute_nfds(rorder, worder) == nfds_loop(nfds_loop(0, rorder), worder) + 1

\* the values nfds can take over the iteration orders of the two maps
nfds_outcomes(rf, wf) ==
  {compute_nfds(ro, wo) : ro \in Permutations_of(DOMAIN rf), wo \in Permutations_of(DOMAIN wf)}

\* mutant: a select that returned -1 is issued again
select_syscalls_retry(ret) == IF ret = -1 THEN 2 ELSE 1

\* number of libc::select calls of one select(): one, its return value is final
select_syscalls(ret) == 1

\* mutant: select drops the entries it has reported
after_select_oneshot(m, reported) == [x \in DOMAIN m \ reported |-> m[x]]

\* select takes &self: a map is after the call what it was before
after_select(m, reported) == m

\* descriptors whose FD_SET / FD_ISSET index lies outside the fd_set
OutOfSet(rf, wf) == {fd \in DOMAIN rf \cup DOMAIN wf : fd >= FD_SETSIZE}

\* a fresh Poll, apart from the timeout its caller will pass
InitPoll ==
  /\ read_fds = EmptyMap
  /\ write_fds = EmptyMap
  /\ events = <<>>
  /\ poisoned = FALSE
  /\ call = NoCall
  /\ result = "none"
  /\ sel = NoSel
  /\ ncalls = 0
  /\ hist_last = [fd \in Fds |-> NoHist]
  /\ hist_union = [fd \in Fds |-> {}]
  /\ hist_dereg = {}
  /\ lock = NoThread
  /\ pc = [t \in Threads |-> "idle"]
  /\ targ = [t \in Threads |-> NoCall]
  /\ tres = [t \in Threads |-> "none"]
  /\ ppc = "idle"
  /\ built = NoBuilt

Init == InitPoll /\ timeout = NoneTimeout

\* Mutex::lock().unwrap() in a single-caller run: the lock is free and not poisoned
Locked == ~poisoned /\ lock = NoThread /\ ncalls < MaxCalls

\* ---- Registry::register ----
Registry_register(fd, token, interests) ==
  LET out == PosixSelect_register(read_fds, write_fds, fd, token, interests) IN
  /\ Locked
  /\ read_fds' = out.r
  /\ write_fds' = out.w
  /\ result' = out.res
  /\ call' = [op |-> "register", fd |-> fd, token |-> token, interests |-> interests]
  /\ sel' = NoSel
  /\ ncalls' = ncalls + 1
  /\ hist_last' = IF out.res = "Ok"
                  THEN [hist_last EXCEPT ![fd] = [op |-> "register", token |-> token, interests |-> interests,
                                                  replaced |-> Replaces(read_fds, write_fds, fd, token, interests)]]
                  ELSE hist_last
  /\ hist_union' = IF out.res = "Ok" THEN [hist_union EXCEPT ![fd] = @ \cup interests] ELSE hist_union
  /\ hist_dereg' = IF out.res = "Ok" THEN {e \in hist_dereg : e.fd # fd} ELSE hist_dereg
  /\ UNCHANGED <<events, poisoned, timeout>>
  /\ UNCHANGED threadvars

\* ---- Registry::reregister ----
Registry_reregister(fd, token, interests) ==
  LET out == PosixSelect_reregister(read_fds, write_fds, fd, token, interests) IN
  /\ Locked
  /\ read_fds' = out.r
  /\ write_fds' = out.w
  /\ result' = out.res
  /\ call' = [op |-> "reregister", fd |-> fd, token |-> token, interests |-> interests]
  /\ sel' = NoSel
  /\ ncalls' = ncalls + 1
  /\ hist_last' = [hist_last EXCEPT ![fd] = [op |-> "reregister", token |-> token, interests |-> interests,
                                              replaced |-> Replaces(read_fds, write_fds, fd, token, interests)]]
  /\ hist_union' = [hist_union EXCEPT ![fd] = @ \cup interests]
  /\ hist_dereg' = {e \in hist_dereg : e.fd # fd}
  /\ UNCHANGED <<events, poisoned, timeout>>
  /\ UNCHANGED threadvars

\* ---- Registry::deregister ----
Registry_deregister(fd) ==
  LET out == PosixSelect_deregister(read_fds, write_fds, fd) IN
  /\ Locked
  /\ read_fds' = out.r
  /\ write_fds' = out.w
  /\ result' = out.res
  /\ call' = [op |-> "deregister", fd |-> fd, token |-> NoToken, interests |-> {}]
  /\ sel' = NoSel
  /\ ncalls' = ncalls + 1
  /\ hist_last' = [hist_last EXCEPT ![fd] = NoHist]
  /\ hist_union' = [hist_union EXCEPT ![fd] = {}]
  /\ hist_dereg' = {e \in hist_dereg : e.fd # fd}
                      \cup {[fd |-> fd, had |-> {d \in {"R"} : contains_key(read_fds, fd)}
                                                  \cup {d \in {"W"} : contains_key(write_fds, fd)}]}
  /\ UNCHANGED <<events, poisoned, timeout>>
  /\ UNCHANGED threadvars

\* ---- Poll::poll -> PosixSelect::select ----
Poll_poll(to) ==
  /\ Locked
  /\ call' = [op |-> "poll", fd |-> NoFd, token |-> NoToken, interests |-> {}]
  /\ ncalls' = ncalls + 1
  /\ timeout' = to
  /\ UNCHANGED <<hist_last, hist_union, hist_dereg>>
  /\ UNCHANGED threadvars
  /\ \/ \* FD_SET on a descriptor outside the fd_set: out-of-bounds index, the call panics
        /\ OutOfSet(read_fds, write_fds) # {}
        /\ poisoned' = TRUE
        /\ result' = "Panic"
        /\ sel' = NoSel
        /\ UNCHANGED <<events, read_fds, write_fds>>
     \/ \* select returned -1
        \E nfds \in nfds_outcomes(read_fds, write_fds) :
          /\ poisoned' = FALSE
          /\ result' = "OsError"
          /\ sel' = [ret |-> -1, rfds |-> {}, wfds |-> {}, called |-> TRUE,
                     syscalls |-> select_syscalls(-1), nfds |-> nfds, tv |-> timeval_of(to)]
          /\ read_fds' = after_select(read_fds, {})
          /\ write_fds' = after_select(write_fds, {})
          /\ UNCHANGED events
     \/ \* select returned the number of bits left set in rfds and wfds
        \E rfds \in SUBSET DOMAIN read_fds, wfds \in SUBSET DOMAIN write_fds,
           nfds \in nfds_outcomes(read_fds, write_fds) :
          LET ret == Cardinality(rfds) + Cardinality(wfds) IN
          /\ sel' = [ret |-> ret, rfds |-> rfds, wfds |-> wfds, called |-> TRUE,
                     syscalls |-> select_syscalls(ret), nfds |-> nfds, tv |-> timeval_of(to)]
          /\ read_fds' = after_select(read_fds, rfds)
          /\ write_fds' = after_select(write_fds, wfds)
          /\ IF ret > 0
             THEN \E rorder \in IterOrders(DOMAIN read_fds, rfds), worder \in IterOrders(DOMAIN write_fds, wfds) :
                    LET out == select_translate(events, read_fds, write_fds, rfds, wfds, rorder, worder) IN
                    /\ events' = out.events
                    /\ poisoned' = out.fault
                    /\ result' = IF out.fault THEN "Panic" ELSE "Ok"
             ELSE /\ events' = clear(events)
                  /\ poisoned' = FALSE
                  /\ result' = "Ok"

\* the timeouts the callers of the registration scenarios pass to poll
PollTimeouts == {NoneTimeout, SomeTimeout(U64_MAX, 999999999)}

Next ==
  \/ \E fd \in Fds, token \in Tokens, interests \in Interests : Registry_register(fd, token, interests)
  \/ \E fd \in Fds, token \in Tokens, interests \in Interests : Registry_reregister(fd, token, interests)
  \/ \E fd \in Fds : Registry_deregister(fd)
  \/ \E to \in PollTimeouts : Poll_poll(to)

Spec == Init /\ [][Next]_vars

\* ---- poll called with each timeout of a sample of Option<Duration> ----
SampleLimbs == {0, 1, LimbBase \div 2 - 1, LimbBase \div 2, LimbBase - 1}
SampleSecs == {<<a, b, c, d>> : a \in SampleLimbs, b \in {0, LimbBase - 1}, c \in {0, LimbBase - 1}, d \in SampleLimbs}
SampleNanos == {0, 999, 1000, 999999, 1000000, 999999999}
TimeoutInputs == {NoneTimeout} \cup {SomeTimeout(secs, nanos) : secs \in SampleSecs, nanos \in SampleNanos}

InitTimeout == InitPoll /\ timeout \in TimeoutInputs

NextTimeout == Poll_poll(timeout)

SpecTimeout == InitTimeout /\ [][NextTimeout]_vars

\* ---- N threads call Registry::register(&self, ..) on one shared Registry ----
\* thread t registers its own descriptor
ThreadFd(t) == t - 1

\* mutant: the Mutex excludes nobody
MutexFree_always == TRUE

\* Mutex::lock returns only while no other guard is alive
MutexFree == lock = NoThread

\* self.selector.lock().unwrap(): blocks until the Mutex is free
T_lock(t, token, interests) ==
  /\ pc[t] = "idle"
  /\ MutexFree
  /\ ~poisoned
  /\ lock' = t
  /\ pc' = [pc EXCEPT ![t] = "locked"]
  /\ targ' = [targ EXCEPT ![t] = [op |-> "register", fd |-> ThreadFd(t), token |-> token, interests |-> interests]]
  /\ UNCHANGED <<read_fds, write_fds, tres>>
  /\ UNCHANGED seqvars
  /\ UNCHANGED pollvars

\* PosixSelect::register through the guard
T_register(t) ==
  LET out == PosixSelect_register(read_fds, write_fds, targ[t].fd, targ[t].token, targ[t].interests) IN
  /\ pc[t] = "locked"
  /\ lock = t
  /\ read_fds' = out.r
  /\ write_fds' = out.w
  /\ tres' = [tres EXCEPT ![t] = out.res]
  /\ pc' = [pc EXCEPT ![t] = "unlock"]
  /\ UNCHANGED <<lock, targ>>
  /\ UNCHANGED seqvars
  /\ UNCHANGED pollvars

\* the guard is dropped at the end of the statement and the call returns
T_unlock(t) ==
  /\ pc[t] = "unlock"
  /\ lock = t
  /\ lock' = NoThread
  /\ pc' = [pc EXCEPT ![t] = "done"]
  /\ UNCHANGED <<read_fds, write_fds, targ, tres>>
  /\ UNCHANGED seqvars
  /\ UNCHANGED pollvars

NextThreads ==
  \/ \E t \in Threads, token \in Tokens, interests \in Interests : T_lock(t, token, interests)
  \/ \E t \in Threads : T_register(t)
  \/ \E t \in Threads : T_unlock(t)

SpecThreads == Init /\ [][NextThreads]_vars

\* ---- one thread inside Poll::poll while the N threads register ----
Poller == NumThreads + 1

\* self.registry.selector.lock().unwrap(): the guard lives to the end of poll
P_lock ==
  /\ ppc = "idle"
  /\ MutexFree
  /\ ~poisoned
  /\ lock' = Poller
  /\ ppc' = "locked"
  /\ call' = [op |-> "poll", fd |-> NoFd, token |-> NoToken, interests |-> {}]
  /\ UNCHANGED <<read_fds, write_fds, events, poisoned, result, sel, ncalls, timeout,
                 hist_last, hist_union, hist_dereg, pc, targ, tres, built>>

\* FD_ZERO and the two FD_SET loops over the maps
P_build ==
  /\ ppc = "locked"
  /\ built' = [rset |-> DOMAIN read_fds, wset |-> DOMAIN write_fds,
               r |-> read_fds, w |-> write_fds]
  /\ ppc' = "built"
  /\ UNCHANGED <<read_fds, write_fds, lock, pc, targ, tres>>
  /\ UNCHANGED seqvars

\* the blocking libc::select on the sets that were built
P_select ==
  /\ ppc = "built"
  /\ \E nfds \in nfds_outcomes(built.r, built.w) :
       \/ /\ sel' = [ret |-> -1, rfds |-> {}, wfds |-> {}, called |-> TRUE,
                      syscalls |-> select_syscalls(-1), nfds |-> nfds, tv |-> timeval_of(timeout)]
          /\ result' = "OsError"
          /\ ppc' = "unlock"
       \/ \E rfds \in SUBSET built.rset, wfds \in SUBSET built.wset :
            /\ sel' = [ret |-> Cardinality(rfds) + Cardinality(wfds), rfds |-> rfds, wfds |-> wfds,
                       called |-> TRUE,
                       syscalls |-> select_syscalls(Cardinality(rfds) + Cardinality(wfds)),
                       nfds |-> nfds, tv |-> timeval_of(timeout)]
            /\ result' = "none"
            /\ ppc' = "selected"
  /\ UNCHANGED <<read_fds, write_fds, events, poisoned, call, ncalls, timeout,
                 hist_last, hist_union, hist_dereg>>
  /\ UNCHANGED <<lock, pc, targ, tres, built>>

\* events.clear() and the two FD_ISSET loops over the maps as they are now
P_translate ==
  /\ ppc = "selected"
  /\ IF sel.ret > 0
     THEN \E rorder \in IterOrders(DOMAIN read_fds, sel.rfds), worder \in IterOrders(DOMAIN write_fds, sel.wfds) :
            LET out == select_translate(events, read_fds, write_fds, sel.rfds, sel.wfds, rorder, worder) IN
            /\ events' = out.events
            /\ poisoned' = out.fault
            /\ result' = IF out.fault THEN "Panic" ELSE "Ok"
            /\ ppc' = IF out.fault THEN "panicked" ELSE "unlock"
     ELSE /\ events' = clear(events)
          /\ poisoned' = FALSE
          /\ result' = "Ok"
          /\ ppc' = "unlock"
  /\ UNCHANGED <<read_fds, write_fds, call, sel, ncalls, timeout, hist_last, hist_union, hist_dereg>>
  /\ UNCHANGED <<lock, pc, targ, tres, built>>

\* the guard is dropped and poll returns
P_unlock ==
  /\ ppc = "unlock"
  /\ lock' = NoThread
  /\ ppc' = "done"
  /\ UNCHANGED <<read_fds, write_fds, pc, targ, tres, built>>
  /\ UNCHANGED seqvars

NextPollThreads ==
  \/ \E t \in Threads, token \in Tokens, interests \in Interests : T_lock(t, token, interests)
  \/ \E t \in Threads : T_register(t)
  \/ \E t \in Threads : T_unlock(t)
  \/ P_lock
  \/ P_build
  \/ P_select
  \/ P_translate
  \/ P_unlock

SpecPollThreads == Init /\ [][NextPollThreads]_vars

\* ---- properties ----
BOTH == READABLE \cup WRITABLE
IsCall(c, op) == c.op = op
\* the events of the first (read) loop and of the second (write) loop of select
ReadPart(ev, s) == SubSeq(ev, 1, Cardinality(s.rfds))
WritePart(ev, s) == SubSeq(ev, Cardinality(s.rfds) + 1, Len(ev))
\* the calls of a run of threads: everyone has returned
AllDone == \A t \in Threads : pc[t] = "done"

\* C1: register(D, T2, I) with D below FD_SETSIZE fails with AlreadyExists
\* whenever D is in the read map and I is readable, or D is in the write map
\* and I is writable; the failing call leaves both maps as they were.
C1_DuplicateRegisterFails ==
  [][(/\ IsCall(call', "register")
      /\ call'.fd < FD_SETSIZE
      /\ \/ is_readable(call'.interests) /\ call'.fd \in DOMAIN read_fds
         \/ is_writable(call'.interests) /\ call'.fd \in DOMAIN write_fds)
     => (/\ result' = "AlreadyExists"
         /\ read_fds' = read_fds
         /\ write_fds' = write_fds)]_vars

\* C1 witness: register(D, T2, Both) was refused while D sits in the read map
\* only, still under its first token
C1_Witness ==
  /\ IsCall(call, "register")
  /\ result = "AlreadyExists"
  /\ call.interests = BOTH
  /\ call.fd \in DOMAIN read_fds
  /\ call.fd \notin DOMAIN write_fds
  /\ read_fds[call.fd] # call.token

\* C2: register with a descriptor >= FD_SETSIZE fails with InvalidInput for
\* every token, interest set and table state, and leaves both maps unchanged.
C2_CapacityRejected ==
  [][(IsCall(call', "register") /\ call'.fd >= FD_SETSIZE)
     => (/\ result' = "InvalidInput"
         /\ read_fds' = read_fds
         /\ write_fds' = write_fds)]_vars

\* C2 witness: register(FD_SETSIZE, ..) was refused on a non-empty table
C2_Witness ==
  /\ IsCall(call, "register")
  /\ call.fd = FD_SETSIZE
  /\ result = "InvalidInput"
  /\ DOMAIN read_fds \cup DOMAIN write_fds # {}

\* C3: after a poll whose select reported ready descriptors, every D of the
\* write map whose bit is set in the returned write-set has an event, pushed
\* by the write loop, that carries the token the write map holds for D.
C3_WriteEventCarriesWriteToken ==
  (IsCall(call, "poll") /\ sel.ret > 0)
  => \A d \in sel.wfds :
       \E i \in 1 .. Len(WritePart(events, sel)) :
         WritePart(events, sel)[i] = Event(d, write_fds[d])

\* C4: reregister always returns Ok and leaves the map of each requested
\* direction holding the new token; a poll that then finds D read-ready
\* reports D once, with the token of that reregister.
C4_ReregisterUpserts ==
  [][/\ IsCall(call', "reregister")
        => /\ result' = "Ok"
           /\ is_readable(call'.interests)
                => (call'.fd \in DOMAIN read_fds' /\ read_fds'[call'.fd] = call'.token)
           /\ is_writable(call'.interests)
                => (call'.fd \in DOMAIN write_fds' /\ write_fds'[call'.fd] = call'.token)
     /\ (IsCall(call', "poll") /\ result' = "Ok")
        => \A d \in sel'.rfds :
             (hist_last'[d].op = "reregister" /\ is_readable(hist_last'[d].interests))
             => /\ \E i \in 1 .. Len(ReadPart(events', sel')) :
                     ReadPart(events', sel')[i] = Event(d, hist_last'[d].token)
                /\ \A i \in 1 .. Len(ReadPart(events', sel')) :
                     ReadPart(events', sel')[i].fd = d
                     => ReadPart(events', sel')[i].token = hist_last'[d].token]_vars

\* C4 witness: D was reregistered for Readable over another token, and the
\* poll that followed reported D read-ready with the new token
C4_Witness ==
  /\ IsCall(call, "poll")
  /\ result = "Ok"
  /\ \E d \in sel.rfds :
       /\ hist_last[d].op = "reregister"
       /\ is_readable(hist_last[d].interests)
       /\ hist_last[d].replaced
       /\ \E i \in 1 .. Len(events) : events[i] = Event(d, hist_last[d].token)

\* C5: while D is deregistered and not registered again, a poll either
\* leaves the sink as it found it (it returned an error) or leaves a sink
\* without any event for D.
C5_NoEventAfterDeregister ==
  [][IsCall(call', "poll")
     => \/ events' = events /\ result' # "Ok"
        \/ \A e \in hist_dereg : \A i \in 1 .. Len(events') : events'[i].fd # e.fd]_vars

\* C5 witness: D was registered for both directions and deregistered, and a
\* later poll returned Ok
C5_Witness ==
  /\ IsCall(call, "poll")
  /\ result = "Ok"
  /\ \E e \in hist_dereg : e.had = BOTH

\* C6: D is in the read map only, select reports D read-ready and nothing
\* else, poll returns Ok: the sink is exactly <<(D, read token of D)>>.
C6_SingleReadEvent ==
  \A d \in Fds :
    (/\ IsCall(call, "poll")
     /\ result = "Ok"
     /\ d \in DOMAIN read_fds
     /\ d \notin DOMAIN write_fds
     /\ sel.rfds = {d}
     /\ sel.wfds = {})
    => events = <<Event(d, read_fds[d])>>

\* C6 witness: such a poll, with a second descriptor registered and not ready
C6_Witness ==
  /\ IsCall(call, "poll")
  /\ result = "Ok"
  /\ sel.wfds = {}
  /\ \E d \in DOMAIN read_fds \ DOMAIN write_fds :
       /\ sel.rfds = {d}
       /\ events = <<Event(d, read_fds[d])>>
       /\ DOMAIN read_fds # {d}

\* C7: N threads each register their own descriptor: every call that has
\* returned returned Ok, its entries are in the table under its token, and
\* once all have returned the table holds exactly the entries of the N calls.
C7_ConcurrentRegister ==
  /\ \A t \in Threads :
       pc[t] = "done"
       => /\ tres[t] = "Ok"
          /\ is_readable(targ[t].interests)
               => (ThreadFd(t) \in DOMAIN read_fds /\ read_fds[ThreadFd(t)] = targ[t].token)
          /\ is_writable(targ[t].interests)
               => (ThreadFd(t) \in DOMAIN write_fds /\ write_fds[ThreadFd(t)] = targ[t].token)
  /\ AllDone
       => /\ DOMAIN read_fds = {ThreadFd(t) : t \in {u \in Threads : is_readable(targ[u].interests)}}
          /\ DOMAIN write_fds = {ThreadFd(t) : t \in {u \in Threads : is_writable(targ[u].interests)}}

\* C7 witness: all N threads have returned and all N descriptors are in the table
C7_Witness ==
  /\ AllDone
  /\ DOMAIN read_fds \cup DOMAIN write_fds = {ThreadFd(t) : t \in Threads}
  /\ \E t, u \in Threads : targ[t].token # targ[u].token

\* C8 as stated: D is in the read (write) map iff the most recent successful
\* register/reregister for D, with no later deregister, requested Readable
\* (Writable).
C8_LastCallDecides ==
  \A d \in Fds :
    /\ d \in DOMAIN read_fds <=> is_readable(hist_last[d].interests)
    /\ d \in DOMAIN write_fds <=> is_writable(hist_last[d].interests)

\* C8 amended: D is in the read (write) map iff some successful
\* register/reregister for D since the last deregister of D requested
\* Readable (Writable).
C8_SomeCallDecides ==
  /\ DOMAIN read_fds \subseteq Fds
  /\ DOMAIN write_fds \subseteq Fds
  /\ \A d \in Fds :
       /\ d \in DOMAIN read_fds <=> is_readable(hist_union[d])
       /\ d \in DOMAIN write_fds <=> is_writable(hist_union[d])

\* C8 witness: D is in both maps although its latest successful call asked
\* for one direction only
C8_Witness ==
  \E d \in Fds :
    /\ d \in DOMAIN read_fds
    /\ d \in DOMAIN write_fds
    /\ hist_last[d].interests # BOTH
    /\ hist_union[d] = BOTH

\* C9: poll returns Ok or an OS error; it never panics and never leaves the
\* Mutex poisoned.
C9_PollNeverFaults ==
  IsCall(call, "poll") => (result \in {"Ok", "OsError"} /\ ~poisoned)

\* C10: register(D, T, Writable) with D in the read map and not in the write
\* map returns Ok, puts D -> T into the write map and leaves the read map
\* alone; the same with the directions swapped.
C10_PerDirectionRegister ==
  [][/\ (/\ IsCall(call', "register")
         /\ call'.interests = WRITABLE
         /\ call'.fd \in DOMAIN read_fds
         /\ call'.fd \notin DOMAIN write_fds)
        => (/\ result' = "Ok"
            /\ write_fds' = [x \in DOMAIN write_fds \cup {call'.fd} |->
                               IF x = call'.fd THEN call'.token ELSE write_fds[x]]
            /\ read_fds' = read_fds)
     /\ (/\ IsCall(call', "register")
         /\ call'.interests = READABLE
         /\ call'.fd \in DOMAIN write_fds
         /\ call'.fd \notin DOMAIN read_fds)
        => (/\ result' = "Ok"
            /\ read_fds' = [x \in DOMAIN read_fds \cup {call'.fd} |->
                              IF x = call'.fd THEN call'.token ELSE read_fds[x]]
            /\ write_fds' = write_fds)]_vars

\* C11: when poll returns, whatever select reported, the sink holds only
\* what this call put there: as many events as select reported ready
\* descriptors, and none after an OS error or zero ready descriptors.
C11_PollClearsSink ==
  (IsCall(call, "poll") /\ result \in {"Ok", "OsError"})
  => Len(events) = (IF sel.ret > 0 THEN sel.ret ELSE 0)

\* C12: deregister(D) returns Ok, leaves D in neither map, changes nothing
\* when D was in neither, and leaves the entries of every other descriptor
\* as they were.
C12_DeregisterRemovesOnlyD ==
  [][IsCall(call', "deregister")
     => /\ result' = "Ok"
        /\ call'.fd \notin DOMAIN read_fds'
        /\ call'.fd \notin DOMAIN write_fds'
        /\ DOMAIN read_fds' = DOMAIN read_fds \ {call'.fd}
        /\ DOMAIN write_fds' = DOMAIN write_fds \ {call'.fd}
        /\ \A x \in DOMAIN read_fds' : read_fds'[x] = read_fds[x]
        /\ \A x \in DOMAIN write_fds' : write_fds'[x] = write_fds[x]
        /\ (call'.fd \notin DOMAIN read_fds \cup DOMAIN write_fds)
             => (read_fds' = read_fds /\ write_fds' = write_fds)]_vars

\* C12 witness: deregister removed D from both maps and another descriptor
\* is still registered
C12_Witness ==
  /\ IsCall(call, "deregister")
  /\ result = "Ok"
  /\ \E e \in hist_dereg : e.fd = call.fd /\ e.had = BOTH
  /\ DOMAIN read_fds \cup DOMAIN write_fds # {}

\* C15: every descriptor stored in the read map or the write map is below
\* FD_SETSIZE.
C15_StoredBelowCapacity ==
  \A fd \in DOMAIN read_fds \cup DOMAIN write_fds : fd < FD_SETSIZE

\* C16: after a poll that returned Ok every event's descriptor is in the
\* read map and in the returned read-set, or in the write map and in the
\* returned write-set; with zero ready descriptors the sink is empty.
C16_EventsOnlyForReady ==
  (IsCall(call, "poll") /\ result = "Ok")
  => /\ \A i \in 1 .. Len(events) :
          \/ events[i].fd \in DOMAIN read_fds /\ events[i].fd \in sel.rfds
          \/ events[i].fd \in DOMAIN write_fds /\ events[i].fd \in sel.wfds
     /\ sel.ret = 0 => events = <<>>

\* C16 witness: poll returned Ok with a write-ready descriptor reported and
\* another registered descriptor not ready and not reported
C16_Witness ==
  /\ IsCall(call, "poll")
  /\ result = "Ok"
  /\ sel.wfds # {}
  /\ \E d \in (DOMAIN read_fds \cup DOMAIN write_fds) \ (sel.rfds \cup sel.wfds) :
       \A i \in 1 .. Len(events) : events[i].fd # d
  /\ events # <<>>

\* C17: a poll that returns has issued exactly one select; when select
\* returned -1 poll returns the OS error, the sink is what it was and so are
\* the two maps.
C17_OneSyscallNoRetry ==
  [][IsCall(call', "poll")
     => /\ result' \in {"Ok", "OsError"} => sel'.syscalls = 1
        /\ (sel'.called /\ sel'.ret = -1)
             => /\ result' = "OsError"
                /\ events' = events
                /\ read_fds' = read_fds
                /\ write_fds' = write_fds]_vars

\* C17 witness: poll returned an OS error after one select, on a non-empty table
C17_Witness ==
  /\ IsCall(call, "poll")
  /\ result = "OsError"
  /\ sel.ret = -1
  /\ sel.syscalls = 1
  /\ DOMAIN read_fds # {}
  /\ DOMAIN write_fds # {}

\* C18: poll leaves the read map and the write map as it found them, for
\* every timeout and every select outcome.
C18_PollKeepsTable ==
  [][IsCall(call', "poll") => (read_fds' = read_fds /\ write_fds' = write_fds)]_vars

\* C18 witness: poll with a timeout reported a descriptor in each direction
\* and both are still registered
C18_Witness ==
  /\ IsCall(call, "poll")
  /\ result = "Ok"
  /\ timeout.some
  /\ sel.rfds # {}
  /\ sel.wfds # {}
  /\ sel.rfds \subseteq DOMAIN read_fds
  /\ sel.wfds \subseteq DOMAIN write_fds

\* C19: the nfds poll passes to select is the largest descriptor of the two
\* maps plus one, above every registered descriptor, and 1 when both maps
\* are empty.
C19_NfdsIsMaxPlusOne ==
  (IsCall(call, "poll") /\ sel.called)
  => LET regs == DOMAIN read_fds \cup DOMAIN write_fds IN
     /\ regs = {} => sel.nfds = 1
     /\ regs # {} => (sel.nfds - 1) \in regs
     /\ \A fd \in regs : fd < sel.nfds

\* C19 witness: select was called while the largest descriptor is in the
\* write map only
C19_Witness ==
  /\ IsCall(call, "poll")
  /\ sel.called
  /\ DOMAIN read_fds # {}
  /\ \E w \in DOMAIN write_fds \ DOMAIN read_fds :
       /\ \A fd \in DOMAIN read_fds : fd < w
       /\ sel.nfds = w + 1

\* C20: None passes a null timeval; Some(d) passes tv_sec = min(whole
\* seconds of d, time_t::MAX), not negative, and tv_usec = sub-second
\* nanoseconds of d divided by 1000 rounded down, within 0..999999.
C20_TimeoutConversion ==
  (IsCall(call, "poll") /\ sel.called)
  => IF timeout.some
     THEN /\ ~sel.tv.null
          /\ sel.tv.tv_sec.bits = (IF u64_le(timeout.secs, TIME_T_MAX_AS_U64)
                                   THEN timeout.secs ELSE TIME_T_MAX_AS_U64)
          /\ ~sel.tv.tv_sec.neg
          /\ sel.tv.tv_usec \in 0 .. 999999
          /\ sel.tv.tv_usec * 1000 <= timeout.nanos
          /\ timeout.nanos < (sel.tv.tv_usec + 1) * 1000
     ELSE sel.tv.null

\* C20 witness: a duration of more whole seconds than time_t holds was
\* clamped, with a sub-second part that is not a whole microsecond
C20_Witness ==
  /\ IsCall(call, "poll")
  /\ sel.called
  /\ timeout.some
  /\ ~u64_le(timeout.secs, TIME_T_MAX_AS_U64)
  /\ sel.tv.tv_sec.bits = TIME_T_MAX_AS_U64
  /\ timeout.nanos = 999999999
  /\ sel.tv.tv_usec = 999999

\* C13: one Mutex guards the table.  A register call holds it from its lock
\* to its unlock, poll holds it from before the sets are built until the
\* events are appended; in between the table is the one the sets were built
\* from, and every event carries a descriptor and a token of that table.
C13_LockCoversPoll ==
  /\ \A t \in Threads : pc[t] \in {"locked", "unlock"} => lock = t
  /\ ppc \in {"locked", "built", "selected", "unlock"} => lock = Poller
  /\ ppc \in {"built", "selected", "unlock", "panicked"}
       => (read_fds = built.r /\ write_fds = built.w)
  /\ (ppc \in {"unlock", "done"} /\ result = "Ok")
       => \A i \in 1 .. Len(events) :
            \/ events[i].fd \in DOMAIN built.r /\ events[i].token = built.r[events[i].fd]
            \/ events[i].fd \in DOMAIN built.w /\ events[i].token = built.w[events[i].fd]

\* C13 witness: poll has appended its events and returned while a thread
\* that had not registered when the sets were built has registered since
C13_Witness ==
  /\ ppc = "done"
  /\ result = "Ok"
  /\ events # <<>>
  /\ \E t \in Threads :
       /\ pc[t] = "done"
       /\ ThreadFd(t) \notin DOMAIN built.r \cup DOMAIN built.w

====
